---- MODULE Spec2Model ----
(***************************************************************************)
(* Model of the Google tools plugin (google_tools.py, version 0.0.3 kept   *)
(* under .history, and the earlier version 0.0.1).                          *)
(*                                                                         *)
(* The credential manager get_google_creds is modelled statement by        *)
(* statement as a small state machine per invocation; the token file       *)
(* token.json, the wall clock and the vendor's token endpoint are the      *)
(* environment.  The public operations are layered on top of it.           *)
(***************************************************************************)
EXTENDS Integers, Sequences, FiniteSets, TLC

(* ----------------------------- bounds ---------------------------------- *)
\* access tokens the vendor can issue in one behaviour
MaxTok == 4
\* clock ticks in one behaviour
MaxTime == 2
\* lifetime, in ticks, of a freshly issued access token
Ttl == 1

\* largest count a caller passes to an operation
MaxCount == 3
\* calendars of the account, and events per calendar
MaxCals == 2
MaxEvts == 2
\* messages in the mailbox, and child parts of a payload
MaxMsgs == 2
MaxParts == 2
MaxHdrs == 2

Procs == {"p1", "p2"}

VARIABLES
    procs,      \* the invocations that run in this specification
    tokenFile,  \* token.json: <<>> when absent, <<record>> when present
    now,        \* the wall clock
    nextTok,    \* the next access token the vendor issues
    pc,         \* per invocation: position in the code
    op,         \* per invocation: the top-level function that was called
    retry,      \* get_google_creds: the retry parameter of the current frame
    creds,      \* get_google_creds: the local creds (<<>> is None)
    result,     \* value returned by the top-level call (<<>> is None / nothing)
    exc,        \* exception that left the top-level call ("" when none)
    hist,       \* per invocation: what the current top-level call has done
    vendorCals, \* the vendor's calendars: a sequence of event sequences
    mailbox,    \* the vendor's messages, in listing order
    args,       \* per invocation: the arguments of the public operation
    loc,        \* per invocation: the local variables of the public operation
    log         \* per invocation: notifications sent and calls made, in order

vars == <<procs, tokenFile, now, nextTok, pc, op, retry, creds, result, exc, hist,
          vendorCals, mailbox, args, loc, log>>

(* --------------------------- credentials -------------------------------- *)
\* A Credentials object: token 0 is "no access token".
Cred(t, e, r) == [token |-> t, expiry |-> e, rt |-> r]

\* Credentials.expired and Credentials.valid (vendor library), read at `now`.
Expired(c) == now >= c.expiry
Valid(c) == c.token # 0 /\ ~Expired(c)

\* creds.to_json() as written to token.json, and a file no parser accepts.
ToJson(c) == [corrupt |-> FALSE, token |-> c.token, expiry |-> c.expiry, rt |-> c.rt]
CorruptFile == [corrupt |-> TRUE, token |-> 0, expiry |-> 0, rt |-> FALSE]

\* Credentials.from_authorized_user_file on a parseable file.
FromFile(f) == Cred(f.token, f.expiry, f.rt)

\* the history of one top-level call of get_google_creds
NoHist == [retry0 |-> FALSE, attempts |-> 0, deletes |-> 0, refreshes |-> 0,
           flows |-> 0, writes |-> 0, failed1 |-> FALSE, failedNoRetry |-> FALSE,
           hitCache |-> FALSE, file0 |-> <<>>, fresh |-> FALSE]

\* the token files an installation can start with
InitFiles ==
    {<<>>, <<CorruptFile>>}
    \cup {<<ToJson(Cred(t, e, r))>> : t \in {0, 1}, e \in {0, MaxTime}, r \in BOOLEAN}

\* arguments and locals of a public operation before it has set them
NoArgs == [count |-> 0, label_id |-> "", message_id |-> 0]
NoLoc == [count |-> 0, messages |-> <<>>, calendar_ids |-> <<>>,
          event_list |-> <<>>, out |-> <<>>]

TypeOK ==
    /\ procs \subseteq Procs
    /\ now \in 0..MaxTime
    /\ nextTok \in 2..(MaxTok - 1 + 2 * Cardinality(procs))
    /\ Len(tokenFile) <= 1
    /\ \A p \in Procs : Len(creds[p]) <= 1 /\ retry[p] \in BOOLEAN

Idle(p) == pc[p] \in {"idle", "returned", "raised"}

\* Entry of get_google_creds(retry=r): line 362-363, creds = None.
EnterCreds(p, r) ==
    /\ retry' = [retry EXCEPT ![p] = r]
    /\ creds' = [creds EXCEPT ![p] = <<>>]
    /\ hist' = [hist EXCEPT ![p] = [NoHist EXCEPT !.retry0 = r, !.attempts = 1]]

\* A caller invokes get_google_creds(retry) directly.
CallCreds(p) ==
    /\ p \in procs /\ Idle(p)
    /\ nextTok + 1 <= MaxTok
    /\ \E r \in BOOLEAN : EnterCreds(p, r)
    /\ pc' = [pc EXCEPT ![p] = "c_load"]
    /\ op' = [op EXCEPT ![p] = "get_google_creds"]
    /\ result' = [result EXCEPT ![p] = <<>>]
    /\ exc' = [exc EXCEPT ![p] = ""]
    /\ args' = [args EXCEPT ![p] = NoArgs]
    /\ loc' = [loc EXCEPT ![p] = NoLoc]
    /\ log' = [log EXCEPT ![p] = <<>>]
    /\ UNCHANGED <<procs, vendorCals, mailbox, tokenFile, now, nextTok>>

\* AfterLoad with the test of creds.valid lost: a cached token that has a
\* refresh token is refreshed on every call
AfterLoad_RefreshAlways(c) ==
    IF c = <<>> THEN "c_flow" ELSE IF c[1].rt THEN "c_refresh" ELSE "c_flow"

\* where line 371-374 sends a loaded value c (<<>> is None)
AfterLoad(c) ==
    IF c = <<>> \/ ~Valid(c[1])
    THEN IF c # <<>> /\ Expired(c[1]) /\ c[1].rt THEN "c_refresh" ELSE "c_flow"
    ELSE "c_return"

\* Lines 369-372: read token.json if it exists, then test creds.valid.
LoadToken(p) ==
    /\ p \in procs /\ pc[p] = "c_load"
    /\ IF tokenFile # <<>> /\ tokenFile[1].corrupt
       THEN \* from_authorized_user_file raises
            /\ pc' = [pc EXCEPT ![p] = "c_except"]
            /\ UNCHANGED creds
            /\ hist' = [hist EXCEPT ![p].file0 =
                            IF hist[p].attempts = 1 THEN tokenFile ELSE @]
       ELSE LET c == IF tokenFile = <<>> THEN <<>> ELSE <<FromFile(tokenFile[1])>>
            IN  /\ creds' = [creds EXCEPT ![p] = c]
                /\ pc' = [pc EXCEPT ![p] = AfterLoad(c)]
                /\ hist' = [hist EXCEPT
                       ![p].file0 = IF hist[p].attempts = 1 THEN tokenFile ELSE @,
                       ![p].hitCache = (c # <<>> /\ Valid(c[1]))]
    /\ UNCHANGED <<procs, vendorCals, mailbox, args, loc, log, tokenFile, now, nextTok, op, retry, result, exc>>

\* a refresh that reads token.json again first and takes over a credential
\* that another invocation has stored meanwhile
Refresh_Recheck(p) ==
    /\ p \in procs /\ pc[p] = "c_refresh"
    /\ IF tokenFile # <<>> /\ ~tokenFile[1].corrupt /\ Valid(FromFile(tokenFile[1]))
       THEN /\ creds' = [creds EXCEPT ![p] = <<FromFile(tokenFile[1])>>]
            /\ pc' = [pc EXCEPT ![p] = "c_return"]
            /\ UNCHANGED <<nextTok, hist>>
       ELSE \E ok \in BOOLEAN :
            IF ok
            THEN /\ creds' = [creds EXCEPT ![p] = <<Cred(nextTok, now + Ttl, TRUE)>>]
                 /\ nextTok' = nextTok + 1
                 /\ pc' = [pc EXCEPT ![p] = "c_persist"]
                 /\ hist' = [hist EXCEPT ![p].refreshes = @ + 1, ![p].fresh = TRUE]
            ELSE /\ pc' = [pc EXCEPT ![p] = "c_except"]
                 /\ hist' = [hist EXCEPT ![p].refreshes = @ + 1]
                 /\ UNCHANGED <<creds, nextTok>>
    /\ UNCHANGED <<procs, vendorCals, mailbox, args, loc, log, tokenFile, now, op, retry, result, exc>>

\* Line 373: creds.refresh(Request()), which the token endpoint may refuse.
Refresh(p) ==
    /\ p \in procs /\ pc[p] = "c_refresh"
    /\ \E ok \in BOOLEAN :
        IF ok
        THEN /\ creds' = [creds EXCEPT ![p] = <<Cred(nextTok, now + Ttl, TRUE)>>]
             /\ nextTok' = nextTok + 1
             /\ pc' = [pc EXCEPT ![p] = "c_persist"]
             /\ hist' = [hist EXCEPT ![p].refreshes = @ + 1, ![p].fresh = TRUE]
        ELSE /\ pc' = [pc EXCEPT ![p] = "c_except"]
             /\ hist' = [hist EXCEPT ![p].refreshes = @ + 1]
             /\ UNCHANGED <<creds, nextTok>>
    /\ UNCHANGED <<procs, vendorCals, mailbox, args, loc, log, tokenFile, now, op, retry, result, exc>>

\* Lines 375-378: the consent flow (client-secret file, local server).
ConsentFlow(p) ==
    /\ p \in procs /\ pc[p] = "c_flow"
    /\ \E ok \in BOOLEAN, r \in BOOLEAN :
        IF ok
        THEN /\ creds' = [creds EXCEPT ![p] = <<Cred(nextTok, now + Ttl, r)>>]
             /\ nextTok' = nextTok + 1
             /\ pc' = [pc EXCEPT ![p] = "c_persist"]
             /\ hist' = [hist EXCEPT ![p].flows = @ + 1, ![p].fresh = TRUE]
        ELSE /\ r
             /\ pc' = [pc EXCEPT ![p] = "c_except"]
             /\ hist' = [hist EXCEPT ![p].flows = @ + 1]
             /\ UNCHANGED <<creds, nextTok>>
    /\ UNCHANGED <<procs, vendorCals, mailbox, args, loc, log, tokenFile, now, op, retry, result, exc>>

\* Lines 379-380: open("token.json", "w") and write.  open may fail (the file
\* is left as it was), or the write may fail after open truncated the file.
Persist(p) ==
    /\ p \in procs /\ pc[p] = "c_persist"
    /\ \E how \in {"ok", "open_fails", "write_fails"} :
        CASE how = "ok" ->
                /\ tokenFile' = <<ToJson(creds[p][1])>>
                /\ pc' = [pc EXCEPT ![p] = "c_return"]
                /\ hist' = [hist EXCEPT ![p].writes = @ + 1]
          [] how = "open_fails" ->
                /\ pc' = [pc EXCEPT ![p] = "c_except"]
                /\ UNCHANGED <<tokenFile, hist>>
          [] how = "write_fails" ->
                /\ tokenFile' = <<CorruptFile>>
                /\ pc' = [pc EXCEPT ![p] = "c_except"]
                /\ UNCHANGED hist
    /\ UNCHANGED <<procs, vendorCals, mailbox, args, loc, log, now, nextTok, op, retry, creds, result, exc>>

\* the statement of each public operation that follows
\* `creds = self.get_google_creds()` (lines 153, 222, 266, 337; line 64 of
\* src/google_tools.py, version 0.0.1)
AfterCreds(o) ==
    CASE o = "get_user_emails" -> "m_list"
      [] o = "get_email_content" -> "g_get"
      [] o = "gmail_create_draft" -> "d_create"
      [] o = "get_user_events" -> "v_cals"
      [] o = "get_user_emails@0.0.1" -> "n_list"

\* where get_google_creds returns v to: its direct caller gets the value, a
\* public operation goes on with its vendor calls
ReturnTo(p, v) ==
    /\ IF op[p] = "get_google_creds"
       THEN /\ pc' = [pc EXCEPT ![p] = "returned"]
            /\ result' = [result EXCEPT ![p] = v]
       ELSE /\ pc' = [pc EXCEPT ![p] = AfterCreds(op[p])]
            /\ UNCHANGED result
    /\ UNCHANGED exc

\* An exception e leaves the top-level call.  In a public operation this is
\* every exception that is not an HttpError: the only handlers are
\* `except HttpError` (lines 179, 226, 285, 349).
RaiseTo(p, e) ==
    /\ pc' = [pc EXCEPT ![p] = "raised"]
    /\ exc' = [exc EXCEPT ![p] = e]
    /\ UNCHANGED result

\* the exception handler's bookkeeping, lines 381-382
NoteFailure(p) ==
    [hist[p] EXCEPT !.failed1 = @ \/ hist[p].attempts = 1,
                    !.failedNoRetry = @ \/ ~retry[p]]

\* Lines 381-386 with retry true: os.remove("token.json"), then the recursive
\* call get_google_creds(retry=False), whose value line 386 returns.
HandleRetry(p) ==
    /\ p \in procs /\ pc[p] = "c_except" /\ retry[p]
    /\ tokenFile # <<>>
    /\ tokenFile' = <<>>
    /\ retry' = [retry EXCEPT ![p] = FALSE]
    /\ creds' = [creds EXCEPT ![p] = <<>>]
    /\ hist' = [hist EXCEPT ![p] = [NoteFailure(p) EXCEPT
                    !.deletes = @ + 1, !.attempts = @ + 1, !.fresh = FALSE]]
    /\ pc' = [pc EXCEPT ![p] = "c_load"]
    /\ UNCHANGED <<procs, vendorCals, mailbox, args, loc, log, now, nextTok, op, result, exc>>

\* a handler that ignores a missing token.json and goes on to the second
\* attempt
RemoveFails_Ignored(p) ==
    /\ p \in procs /\ pc[p] = "c_except" /\ retry[p]
    /\ tokenFile = <<>>
    /\ retry' = [retry EXCEPT ![p] = FALSE]
    /\ creds' = [creds EXCEPT ![p] = <<>>]
    /\ hist' = [hist EXCEPT ![p] = [NoteFailure(p) EXCEPT
                    !.attempts = @ + 1, !.fresh = FALSE]]
    /\ pc' = [pc EXCEPT ![p] = "c_load"]
    /\ UNCHANGED <<procs, vendorCals, mailbox, args, loc, log, tokenFile, now, nextTok, op, result, exc>>

\* Line 385 when token.json does not exist: os.remove raises inside the
\* handler and the exception leaves get_google_creds.
RemoveFails(p) ==
    /\ p \in procs /\ pc[p] = "c_except" /\ retry[p]
    /\ tokenFile = <<>>
    /\ hist' = [hist EXCEPT ![p] = NoteFailure(p)]
    /\ RaiseTo(p, "FileNotFoundError")
    /\ UNCHANGED <<procs, vendorCals, mailbox, args, loc, log, tokenFile, now, nextTok, op, retry, creds>>

\* Lines 381-383 and 387 with retry false: the error is logged, the if is
\* skipped and line 387 returns creds.
HandleNoRetry(p) ==
    /\ p \in procs /\ pc[p] = "c_except" /\ ~retry[p]
    /\ hist' = [hist EXCEPT ![p] = NoteFailure(p)]
    /\ ReturnTo(p, creds[p])
    /\ UNCHANGED <<procs, vendorCals, mailbox, args, loc, log, tokenFile, now, nextTok, op, retry, creds>>

\* Line 387 on the path without exception.
ReturnCreds(p) ==
    /\ p \in procs /\ pc[p] = "c_return"
    /\ ReturnTo(p, creds[p])
    /\ UNCHANGED <<procs, vendorCals, mailbox, args, loc, log, tokenFile, now, nextTok, op, retry, creds, hist>>

\* Time passes.
Tick ==
    /\ now < MaxTime
    /\ now' = now + 1
    /\ UNCHANGED <<procs, vendorCals, mailbox, args, loc, log, tokenFile, nextTok, pc, op, retry, creds, result, exc, hist>>

(* ------------------------ public operations ---------------------------- *)
\* Valves.default_calendar_entries and Valves.default_email_entries
default_calendar_entries == 10
default_email_entries == 10

\* the tag of the <output> element per operation, and MAIN_FORMAT.format
OutputTag(o) ==
    CASE o = "get_user_emails" -> "emails"
      [] o = "get_user_events" -> "events"
      [] o = "get_email_content" -> "CDATA"

MAIN_FORMAT(o, n, out) ==
    [root |-> "interpreter_output", description |-> [of |-> o, n |-> n],
     output |-> [tag |-> OutputTag(o), text |-> out]]

\* an f-string that renders an exception: f"An error occurred: {error}",
\* f"Error fetching calendar data: {error}", f"Error: {err}", ...
ErrorText(prefix, error) == [kind |-> "error", prefix |-> prefix, error |-> error]

\* the outcomes of one vendor API call: a response, an HttpError (an HTTP
\* error status), or another exception (no network, no usable credential)
VendorOutcomes == {"ok", "HttpError", "OtherError"}

\* the try blocks without their handler
Caught_Nothing(r) == FALSE

\* `except HttpError as error` (lines 179, 226, 285, 349): the exceptions of
\* a vendor call that the operation renders as text
Caught(r) == r = "HttpError"

\* the log entry of a vendor call that ended as r
VendorCall(r) ==
    CASE r = "ok" -> "vendor_ok"
      [] r = "HttpError" -> "vendor_HttpError"
      [] r = "OtherError" -> "vendor_OtherError"

\* `await __event_emitter__(...)` with done=False and the description line,
\* the first statements of every public operation.
Begin(p, o, a, n) ==
    /\ p \in procs /\ Idle(p)
    /\ nextTok + 1 <= MaxTok
    /\ op' = [op EXCEPT ![p] = o]
    /\ args' = [args EXCEPT ![p] = a]
    /\ loc' = [loc EXCEPT ![p] = [NoLoc EXCEPT !.count = n]]
    /\ log' = [log EXCEPT ![p] = <<"status_start">>]
    /\ pc' = [pc EXCEPT ![p] = "o_try"]
    /\ result' = [result EXCEPT ![p] = <<>>]
    /\ exc' = [exc EXCEPT ![p] = ""]
    /\ hist' = [hist EXCEPT ![p] = NoHist]
    /\ UNCHANGED <<procs, vendorCals, mailbox, tokenFile, now, nextTok, retry, creds>>

\* `creds = self.get_google_creds()`, the first statement of the try block
\* (lines 152, 221, 265, 336): retry has its default, True.
TryCreds(p) ==
    /\ p \in procs /\ pc[p] = "o_try"
    /\ EnterCreds(p, TRUE)
    /\ pc' = [pc EXCEPT ![p] = "c_load"]
    /\ log' = [log EXCEPT ![p] = Append(@, "creds")]
    /\ UNCHANGED <<procs, vendorCals, mailbox, args, loc, tokenFile, now, nextTok,
                   op, result, exc>>

\* Finish with the second `await __event_emitter__(...)` missing
Finish_Silent(p) ==
    /\ p \in procs /\ pc[p] = "o_finish"
    /\ op[p] \in {"get_user_emails", "get_email_content", "get_user_events"}
    /\ result' = [result EXCEPT ![p] = <<MAIN_FORMAT(op[p], loc[p].count, loc[p].out)>>]
    /\ pc' = [pc EXCEPT ![p] = "returned"]
    /\ UNCHANGED <<procs, vendorCals, mailbox, args, loc, log, tokenFile, now, nextTok,
                   op, retry, creds, exc, hist>>

\* The statements after the try block: format the result, send the status
\* with done=True and return (lines 182-190, 229-237, 352-360).
Finish(p) ==
    /\ p \in procs /\ pc[p] = "o_finish"
    /\ op[p] \in {"get_user_emails", "get_email_content", "get_user_events"}
    /\ result' = [result EXCEPT ![p] = <<MAIN_FORMAT(op[p], loc[p].count, loc[p].out)>>]
    /\ log' = [log EXCEPT ![p] = Append(@, "status_done")]
    /\ pc' = [pc EXCEPT ![p] = "returned"]
    /\ UNCHANGED <<procs, vendorCals, mailbox, args, loc, tokenFile, now, nextTok,
                   op, retry, creds, exc, hist>>

(* --------------------------- get_user_events --------------------------- *)
\* str < str of Python on the start strings, which are sequences of numbers
\* here: <<d>> is the date d, <<d, t>> the date-time d T t.
RECURSIVE StrLess(_, _)
StrLess(a, b) ==
    IF b = <<>> THEN FALSE
    ELSE IF a = <<>> THEN TRUE
    ELSE IF Head(a) # Head(b) THEN Head(a) < Head(b)
    ELSE StrLess(Tail(a), Tail(b))

\* get_cal_evts, lines 455-461: one vendor event as the record the
\* operation keeps.
CalEvt(event) ==
    [start |-> IF "dateTime" \in DOMAIN event.start
               THEN event.start.dateTime ELSE event.start.date,
     summary |-> event.summary,
     calendar |-> IF "displayName" \in DOMAIN event.organizer
                  THEN event.organizer.displayName ELSE event.organizer.email]

\* an events().list whose cap keeps the n events that start last
EventsList_Last(cal, n) ==
    SubSeq(cal, IF n < Len(cal) THEN Len(cal) - n + 1 ELSE 1, Len(cal))

\* events().list(calendarId, maxResults=n, orderBy="startTime"): the first n
\* events of the calendar, which the vendor keeps in start order
EventsList(cal, n) ==
    SubSeq(cal, 1, IF n < Len(cal) THEN n ELSE Len(cal))

\* get_cal_evts, lines 405-463
get_cal_evts(cal, n) ==
    LET items == EventsList(cal, n) IN [k \in 1..Len(items) |-> CalEvt(items[k])]

\* list.sort(key=start), line 345: Python's sort is stable, so x goes behind
\* every element whose start is not greater than its own
RECURSIVE InsertByStart(_, _)
InsertByStart(sorted, x) ==
    IF sorted = <<>> THEN <<x>>
    ELSE IF StrLess(x.start, Head(sorted).start) THEN <<x>> \o sorted
    ELSE <<Head(sorted)>> \o InsertByStart(Tail(sorted), x)

\* the sort of line 345 left out
SortByStart_Unsorted(l) == l

RECURSIVE SortByStart(_)
SortByStart(l) ==
    IF l = <<>> THEN <<>>
    ELSE InsertByStart(SortByStart(SubSeq(l, 1, Len(l) - 1)), l[Len(l)])

\* CALENDAR_FORMAT.format, line 347
CALENDAR_FORMAT(e) ==
    [kind |-> "event", start |-> e.start, summary |-> e.summary, calendar |-> e.calendar]

\* get_user_events(count), lines 324-333
StartEvents(p) ==
    \E count \in {-1} \cup (1..MaxCount) :
        Begin(p, "get_user_events", [NoArgs EXCEPT !.count = count],
              IF count = -1 THEN default_calendar_entries ELSE count)

\* Lines 337-340 and 349-350: get_calendar_ids(service)
CalendarIds(p) ==
    /\ p \in procs /\ pc[p] = "v_cals"
    /\ \E r \in VendorOutcomes :
        /\ log' = [log EXCEPT ![p] = Append(@, VendorCall(r))]
        /\ CASE r = "ok" ->
                /\ loc' = [loc EXCEPT ![p].calendar_ids =
                                [k \in 1..Len(vendorCals) |-> k]]
                /\ pc' = [pc EXCEPT ![p] = IF vendorCals = <<>> THEN "v_sort"
                                           ELSE "v_events"]
                /\ UNCHANGED exc
          [] r # "ok" /\ Caught(r) ->
                /\ loc' = [loc EXCEPT ![p].out =
                                <<ErrorText("Error fetching calendar data: ", "HttpError")>>]
                /\ pc' = [pc EXCEPT ![p] = "o_finish"]
                /\ UNCHANGED exc
          [] r # "ok" /\ ~Caught(r) ->
                /\ RaiseTo(p, r)
                /\ UNCHANGED loc
    /\ UNCHANGED <<procs, vendorCals, mailbox, args, tokenFile, now, nextTok,
                   op, retry, creds, result, hist>>

\* Lines 342-344: one round of the loop over calendar_ids
CalendarEvents(p) ==
    /\ p \in procs /\ pc[p] = "v_events"
    /\ \E r \in VendorOutcomes :
        /\ log' = [log EXCEPT ![p] = Append(@, VendorCall(r))]
        /\ CASE r = "ok" ->
                LET id == Head(loc[p].calendar_ids)
                    events == get_cal_evts(vendorCals[id], loc[p].count)
                IN  /\ loc' = [loc EXCEPT
                            ![p].event_list = @ \o events,
                            ![p].calendar_ids = Tail(@)]
                    /\ pc' = [pc EXCEPT ![p] =
                            IF Tail(loc[p].calendar_ids) = <<>> THEN "v_sort"
                            ELSE "v_events"]
                    /\ UNCHANGED exc
          [] r # "ok" /\ Caught(r) ->
                /\ loc' = [loc EXCEPT ![p].out =
                                <<ErrorText("Error fetching calendar data: ", "HttpError")>>]
                /\ pc' = [pc EXCEPT ![p] = "o_finish"]
                /\ UNCHANGED exc
          [] r # "ok" /\ ~Caught(r) ->
                /\ RaiseTo(p, r)
                /\ UNCHANGED loc
    /\ UNCHANGED <<procs, vendorCals, mailbox, args, tokenFile, now, nextTok,
                   op, retry, creds, result, hist>>

\* FormatFirst written with a slice, event_list[:count], which never raises
FormatFirst_Slice(event_list, count) ==
    LET n == IF count < Len(event_list) THEN count ELSE Len(event_list)
    IN  [raises |-> FALSE, out |-> [i \in 1..n |-> CALENDAR_FORMAT(event_list[i])]]

\* Lines 346-347: event_list[i] for i in range(count); an index past the end
\* raises IndexError and the text built so far is lost
FormatFirst(event_list, count) ==
    IF count > Len(event_list)
    THEN [raises |-> TRUE, out |-> <<>>]
    ELSE [raises |-> FALSE, out |-> [i \in 1..count |-> CALENDAR_FORMAT(event_list[i])]]

\* Lines 345-347: sort, then the loop; no handler catches the IndexError.
SortAndTake(p) ==
    /\ p \in procs /\ pc[p] = "v_sort"
    /\ LET sorted == SortByStart(loc[p].event_list)
           r == FormatFirst(sorted, loc[p].count)
       IN  /\ loc' = [loc EXCEPT ![p].event_list = sorted, ![p].out = r.out]
           /\ IF r.raises
              THEN RaiseTo(p, "IndexError")
              ELSE /\ pc' = [pc EXCEPT ![p] = "o_finish"]
                   /\ UNCHANGED exc
    /\ UNCHANGED <<procs, vendorCals, mailbox, args, log, tokenFile, now, nextTok,
                   op, retry, creds, result, hist>>

(* ------------------------- parse_email_body ---------------------------- *)
\* base64.b64decode on a str of base64 groups: "YQ==" is the byte a, "PA=="
\* the byte <, "Jg==" the byte &, "/w==" a byte that is no UTF-8; a character
\* outside the alphabet ("-" of the URL-safe alphabet) is discarded, and a
\* truncated group ("Y") makes the padding incorrect: binascii.Error, a
\* ValueError.  bytes.decode("utf-8", errors="replace") never raises.
RECURSIVE B64DecodeUtf8(_)
B64DecodeUtf8(s) ==
    IF s = <<>> THEN <<>>
    ELSE LET rest == B64DecodeUtf8(Tail(s))
         IN  CASE Head(s) = "YQ==" -> <<"a">> \o rest
               [] Head(s) = "PA==" -> <<"<">> \o rest
               [] Head(s) = "Jg==" -> <<"&">> \o rest
               [] Head(s) = "/w==" -> <<"U+FFFD">> \o rest
               [] OTHER -> rest

\* html.escape
RECURSIVE HtmlEscape(_)
HtmlEscape(s) ==
    IF s = <<>> THEN <<>>
    ELSE LET rest == HtmlEscape(Tail(s))
         IN  CASE Head(s) = "<" -> <<"&lt;">> \o rest
               [] Head(s) = "&" -> <<"&amp;">> \o rest
               [] OTHER -> <<Head(s)>> \o rest

\* decode_mail_body, lines 487-488: the text, or the exception raised
decode_mail_body(data) ==
    IF ~data.isStr THEN [raises |-> "TypeError", chars |-> <<>>]
    ELSE IF \E i \in 1..Len(data.chars) : data.chars[i] = "Y"
    THEN [raises |-> "ValueError", chars |-> <<>>]
    ELSE [raises |-> "", chars |-> HtmlEscape(B64DecodeUtf8(data.chars))]

\* decode_mail_body(x["body"]["data"]) of lines 476 and 478
DecodeBodyOf(x) ==
    IF "body" \notin DOMAIN x \/ "data" \notin DOMAIN x.body
    THEN [raises |-> "KeyError", chars |-> <<>>]
    ELSE decode_mail_body(x.body.data)

\* MatchingPart without the return inside the loop: the last matching part
\* wins
RECURSIVE MatchingPart_Last(_)
MatchingPart_Last(parts) ==
    IF parts = <<>> THEN [raises |-> "", found |-> FALSE, part |-> <<>>]
    ELSE LET part == parts[Len(parts)]
         IN  IF "mimeType" \notin DOMAIN part
             THEN [raises |-> "KeyError", found |-> FALSE, part |-> <<>>]
             ELSE IF part.mimeType = "text/html" \/ part.mimeType = "text/plain"
             THEN [raises |-> "", found |-> TRUE, part |-> <<part>>]
             ELSE MatchingPart_Last(SubSeq(parts, 1, Len(parts) - 1))

\* The loop of lines 474-476: the part at which it returns, if any
RECURSIVE MatchingPart(_)
MatchingPart(parts) ==
    IF parts = <<>> THEN [raises |-> "", found |-> FALSE, part |-> <<>>]
    ELSE LET part == Head(parts)
         IN  IF "mimeType" \notin DOMAIN part
             THEN [raises |-> "KeyError", found |-> FALSE, part |-> <<>>]
             ELSE IF part.mimeType = "text/html" \/ part.mimeType = "text/plain"
             THEN [raises |-> "", found |-> TRUE, part |-> <<part>>]
             ELSE MatchingPart(Tail(parts))

\* the try block of parse_email_body, lines 473-478
ParseBody(payload) ==
    IF "mimeType" \notin DOMAIN payload
    THEN [raises |-> "KeyError", chars |-> <<>>]
    ELSE IF payload.mimeType = "multipart/alternative"
            \/ payload.mimeType = "multipart/mixed"
    THEN IF "parts" \notin DOMAIN payload
         THEN [raises |-> "KeyError", chars |-> <<>>]
         ELSE LET m == MatchingPart(payload.parts)
              IN  IF m.raises # "" THEN [raises |-> m.raises, chars |-> <<>>]
                  ELSE IF m.found THEN DecodeBodyOf(m.part[1])
                  ELSE DecodeBodyOf(payload)
    ELSE DecodeBodyOf(payload)

\* the handlers with every exception re-raised
Handled_Reraise(r) ==
    [kind |-> IF r.raises = "" THEN "text" ELSE "raise", chars |-> r.chars,
     prefix |-> "", error |-> r.raises]

\* the handlers of parse_email_body, lines 479-484
Handled(r) ==
    CASE r.raises = "" ->
            [kind |-> "text", chars |-> r.chars, prefix |-> "", error |-> ""]
      [] r.raises = "ValueError" ->
            [kind |-> "error", chars |-> <<>>,
             prefix |-> "Error decoding email body: ", error |-> r.raises]
      [] r.raises = "KeyError" ->
            [kind |-> "error", chars |-> <<>>,
             prefix |-> "Error parsing email body: ", error |-> r.raises]
      [] OTHER ->
            [kind |-> "error", chars |-> <<>>, prefix |-> "Error: ", error |-> r.raises]

\* parse_email_body, lines 471-484
parse_email_body(payload) == Handled(ParseBody(payload))

(* ---------------- get_user_emails, get_email_content ------------------- *)
\* a get_header_value that answers with the last entry of the name
RECURSIVE get_header_value_Last(_, _)
get_header_value_Last(headers, name) ==
    IF headers = <<>> THEN ""
    ELSE IF headers[Len(headers)].name = name THEN headers[Len(headers)].value
    ELSE get_header_value_Last(SubSeq(headers, 1, Len(headers) - 1), name)

\* get_header_value, lines 466-468
RECURSIVE get_header_value(_, _)
get_header_value(headers, name) ==
    IF headers = <<>> THEN ""
    ELSE IF Head(headers).name = name THEN Head(headers).value
    ELSE get_header_value(Tail(headers), name)

\* MAIL_FORMAT.format, lines 169-177
MAIL_FORMAT(id, mail, email_body) ==
    [kind |-> "email",
     date |-> get_header_value(mail.payload.headers, "Date"),
     sender |-> get_header_value(mail.payload.headers, "From"),
     subject |-> get_header_value(mail.payload.headers, "Subject"),
     snippet |-> mail.snippet,
     unread |-> "UNREAD" \in mail.labelIds,
     id |-> id,
     email_body |-> email_body]

\* messages().list(maxResults=n, labelIds=[label]): the ids of the first n
\* messages that carry the label
RECURSIVE MessagesWith(_, _)
MessagesWith(label, k) ==
    IF k > Len(mailbox) THEN <<>>
    ELSE (IF label \in mailbox[k].labelIds THEN <<k>> ELSE <<>>)
         \o MessagesWith(label, k + 1)

\* a listing without `labelIds=[label_id]`: the first n messages of any label
ListMessages_AnyLabel(label, n) ==
    [k \in 1..(IF n < Len(mailbox) THEN n ELSE Len(mailbox)) |-> k]

ListMessages(label, n) ==
    LET all == MessagesWith(label, 1)
    IN  SubSeq(all, 1, IF n < Len(all) THEN n ELSE Len(all))

\* the label_id values of the docstring that the mailboxes here use
LabelIds == {"INBOX", "UNREAD"}

\* get_user_emails(count, label_id), lines 141-150
StartEmails(p) ==
    \E count \in {-1} \cup (1..MaxCount), label_id \in LabelIds :
        Begin(p, "get_user_emails",
              [NoArgs EXCEPT !.count = count, !.label_id = label_id],
              IF count = -1 THEN default_email_entries ELSE count)

\* Lines 153-163 and 179-180: messages().list(...).execute()
MessagesList(p) ==
    /\ p \in procs /\ pc[p] = "m_list"
    /\ \E r \in VendorOutcomes :
        /\ log' = [log EXCEPT ![p] = Append(@, VendorCall(r))]
        /\ CASE r = "ok" ->
                LET messages == ListMessages(args[p].label_id, loc[p].count)
                IN  /\ loc' = [loc EXCEPT
                            ![p].messages = messages,
                            ![p].out = IF messages = <<>>
                                       THEN <<[kind |-> "literal",
                                               text |-> "No messages found."]>>
                                       ELSE <<>>]
                    /\ pc' = [pc EXCEPT ![p] = IF messages = <<>> THEN "o_finish"
                                               ELSE "m_get"]
                    /\ UNCHANGED exc
          [] r # "ok" /\ Caught(r) ->
                /\ loc' = [loc EXCEPT ![p].out =
                                <<ErrorText("An error occurred: ", "HttpError")>>]
                /\ pc' = [pc EXCEPT ![p] = "o_finish"]
                /\ UNCHANGED exc
          [] r # "ok" /\ ~Caught(r) ->
                /\ RaiseTo(p, r)
                /\ UNCHANGED loc
    /\ UNCHANGED <<procs, vendorCals, mailbox, args, tokenFile, now, nextTok,
                   op, retry, creds, result, hist>>

\* a loop whose handler adds the error text behind the records built so far
MessageGet_KeepPartial(p) ==
    /\ p \in procs /\ pc[p] = "m_get"
    /\ \E r \in VendorOutcomes :
        /\ log' = [log EXCEPT ![p] = Append(@, VendorCall(r))]
        /\ CASE r = "ok" ->
                LET id == Head(loc[p].messages)
                    mail == mailbox[id]
                    email_body == parse_email_body(mail.payload)
                IN  /\ loc' = [loc EXCEPT
                            ![p].out = Append(@, MAIL_FORMAT(id, mail, email_body)),
                            ![p].messages = Tail(@)]
                    /\ pc' = [pc EXCEPT ![p] =
                            IF Tail(loc[p].messages) = <<>> THEN "o_finish"
                            ELSE "m_get"]
                    /\ UNCHANGED exc
          [] r # "ok" /\ Caught(r) ->
                /\ loc' = [loc EXCEPT ![p].out =
                                Append(@, ErrorText("An error occurred: ", "HttpError"))]
                /\ pc' = [pc EXCEPT ![p] = "o_finish"]
                /\ UNCHANGED exc
          [] r # "ok" /\ ~Caught(r) ->
                /\ RaiseTo(p, r)
                /\ UNCHANGED loc
    /\ UNCHANGED <<procs, vendorCals, mailbox, args, tokenFile, now, nextTok,
                   op, retry, creds, result, hist>>

\* Lines 165-177 and 179-180: one round of the loop over messages
MessageGet(p) ==
    /\ p \in procs /\ pc[p] = "m_get"
    /\ \E r \in VendorOutcomes :
        /\ log' = [log EXCEPT ![p] = Append(@, VendorCall(r))]
        /\ CASE r = "ok" ->
                LET id == Head(loc[p].messages)
                    mail == mailbox[id]
                    email_body == parse_email_body(mail.payload)
                IN  /\ loc' = [loc EXCEPT
                            ![p].out = Append(@, MAIL_FORMAT(id, mail, email_body)),
                            ![p].messages = Tail(@)]
                    /\ pc' = [pc EXCEPT ![p] =
                            IF Tail(loc[p].messages) = <<>> THEN "o_finish"
                            ELSE "m_get"]
                    /\ UNCHANGED exc
          [] r # "ok" /\ Caught(r) ->
                /\ loc' = [loc EXCEPT ![p].out =
                                <<ErrorText("An error occurred: ", "HttpError")>>]
                /\ pc' = [pc EXCEPT ![p] = "o_finish"]
                /\ UNCHANGED exc
          [] r # "ok" /\ ~Caught(r) ->
                /\ RaiseTo(p, r)
                /\ UNCHANGED loc
    /\ UNCHANGED <<procs, vendorCals, mailbox, args, tokenFile, now, nextTok,
                   op, retry, creds, result, hist>>

\* get_email_content(message_id), lines 212-219; 0 is an id of no message
StartContent(p) ==
    \E message_id \in 0..Len(mailbox) :
        Begin(p, "get_email_content", [NoArgs EXCEPT !.message_id = message_id], 0)

\* Lines 222-227: messages().get(id=message_id).execute(), which answers an
\* unknown id with an HttpError
ContentGet(p) ==
    /\ p \in procs /\ pc[p] = "g_get"
    /\ \E r \in VendorOutcomes :
        /\ r = "ok" => args[p].message_id \in 1..Len(mailbox)
        /\ log' = [log EXCEPT ![p] = Append(@, VendorCall(r))]
        /\ CASE r = "ok" ->
                /\ loc' = [loc EXCEPT ![p].out =
                        <<parse_email_body(mailbox[args[p].message_id].payload)>>]
                /\ pc' = [pc EXCEPT ![p] = "o_finish"]
                /\ UNCHANGED exc
          [] r # "ok" /\ Caught(r) ->
                /\ loc' = [loc EXCEPT ![p].out =
                                <<ErrorText("An error occurred: ", "HttpError")>>]
                /\ pc' = [pc EXCEPT ![p] = "o_finish"]
                /\ UNCHANGED exc
          [] r # "ok" /\ ~Caught(r) ->
                /\ RaiseTo(p, r)
                /\ UNCHANGED loc
    /\ UNCHANGED <<procs, vendorCals, mailbox, args, tokenFile, now, nextTok,
                   op, retry, creds, result, hist>>

(* ------------- get_user_emails of src/google_tools.py, 0.0.1 ----------- *)
\* `next((field for field in headers if field["name"] == name), None)`,
\* lines 79-81 of src/google_tools.py: <<>> is None
RECURSIVE HeaderField(_, _)
HeaderField(headers, name) ==
    IF headers = <<>> THEN <<>>
    ELSE IF Head(headers).name = name THEN <<Head(headers)>>
    ELSE HeaderField(Tail(headers), name)

\* get_user_emails(number_of_emails), lines 61-64 of src/google_tools.py: no
\* notification, and get_google_creds before the try block.  This start is
\* for a cached token that is valid, the case in which the get_google_creds
\* of 0.0.1 (lines 131-157) does what the later one does.
StartEmails1(p) ==
    /\ p \in procs /\ Idle(p)
    /\ nextTok + 1 <= MaxTok
    /\ tokenFile # <<>> /\ ~tokenFile[1].corrupt /\ Valid(FromFile(tokenFile[1]))
    /\ \E number_of_emails \in {-1} \cup (1..MaxCount) :
        /\ args' = [args EXCEPT ![p] = [NoArgs EXCEPT !.count = number_of_emails]]
        /\ loc' = [loc EXCEPT ![p] =
                [NoLoc EXCEPT !.count = IF number_of_emails = -1
                                         THEN default_email_entries
                                         ELSE number_of_emails,
                              !.out = <<[kind |-> "literal", text |-> "Messages:"]>>]]
    /\ EnterCreds(p, FALSE)
    /\ op' = [op EXCEPT ![p] = "get_user_emails@0.0.1"]
    /\ log' = [log EXCEPT ![p] = <<"creds">>]
    /\ pc' = [pc EXCEPT ![p] = "c_load"]
    /\ result' = [result EXCEPT ![p] = <<>>]
    /\ exc' = [exc EXCEPT ![p] = ""]
    /\ UNCHANGED <<procs, vendorCals, mailbox, tokenFile, now, nextTok>>

\* Lines 66-75 and 89-92 of src/google_tools.py: messages().list without a
\* label; an HttpError is printed and `return out` follows
MessagesList1(p) ==
    /\ p \in procs /\ pc[p] = "n_list"
    /\ \E r \in VendorOutcomes :
        /\ log' = [log EXCEPT ![p] = Append(@, VendorCall(r))]
        /\ CASE r = "ok" ->
                LET n == IF loc[p].count < Len(mailbox) THEN loc[p].count
                         ELSE Len(mailbox)
                    messages == [k \in 1..n |-> k]
                IN  /\ loc' = [loc EXCEPT ![p].messages = messages]
                    /\ IF messages = <<>>
                       THEN /\ result' = [result EXCEPT ![p] =
                                    <<[bare |-> <<[kind |-> "literal",
                                                   text |-> "No messages found."]>>]>>]
                            /\ pc' = [pc EXCEPT ![p] = "returned"]
                       ELSE /\ pc' = [pc EXCEPT ![p] = "n_get"]
                            /\ UNCHANGED result
                    /\ UNCHANGED exc
          [] r # "ok" /\ Caught(r) ->
                /\ result' = [result EXCEPT ![p] = <<[bare |-> loc[p].out]>>]
                /\ pc' = [pc EXCEPT ![p] = "returned"]
                /\ UNCHANGED <<loc, exc>>
          [] r # "ok" /\ ~Caught(r) ->
                /\ RaiseTo(p, r)
                /\ UNCHANGED loc
    /\ UNCHANGED <<procs, vendorCals, mailbox, args, tokenFile, now, nextTok,
                   op, retry, creds, hist>>

\* Lines 77-92 of src/google_tools.py: one round of the loop; lines 84-86
\* subscript the three fields, and None["value"] is a TypeError, which the
\* `except HttpError` of line 89 does not catch
MessageGet1(p) ==
    /\ p \in procs /\ pc[p] = "n_get"
    /\ \E r \in VendorOutcomes :
        /\ log' = [log EXCEPT ![p] = Append(@, VendorCall(r))]
        /\ CASE r = "ok" ->
                LET mail == mailbox[Head(loc[p].messages)]
                    from_field == HeaderField(mail.payload.headers, "From")
                    subject_field == HeaderField(mail.payload.headers, "Subject")
                    date_field == HeaderField(mail.payload.headers, "Date")
                IN  IF <<>> \in {from_field, subject_field, date_field}
                    THEN /\ RaiseTo(p, "TypeError")
                         /\ UNCHANGED loc
                    ELSE LET out == Append(loc[p].out,
                                      [kind |-> "line",
                                       date |-> date_field[1].value,
                                       sender |-> from_field[1].value,
                                       subject |-> subject_field[1].value,
                                       snippet |-> mail.snippet,
                                       unread |-> "UNREAD" \in mail.labelIds])
                         IN  /\ loc' = [loc EXCEPT ![p].out = out,
                                                   ![p].messages = Tail(@)]
                             /\ IF Tail(loc[p].messages) = <<>>
                                THEN /\ result' = [result EXCEPT ![p] = <<[bare |-> out]>>]
                                     /\ pc' = [pc EXCEPT ![p] = "returned"]
                                ELSE /\ pc' = [pc EXCEPT ![p] = "n_get"]
                                     /\ UNCHANGED result
                             /\ UNCHANGED exc
          [] r # "ok" /\ Caught(r) ->
                /\ result' = [result EXCEPT ![p] = <<[bare |-> loc[p].out]>>]
                /\ pc' = [pc EXCEPT ![p] = "returned"]
                /\ UNCHANGED <<loc, exc>>
          [] r # "ok" /\ ~Caught(r) ->
                /\ RaiseTo(p, r)
                /\ UNCHANGED loc
    /\ UNCHANGED <<procs, vendorCals, mailbox, args, tokenFile, now, nextTok,
                   op, retry, creds, hist>>

(* -------------------------- gmail_create_draft ------------------------- *)
\* gmail_create_draft(to, subject, body), lines 257-263
StartDraft(p) == Begin(p, "gmail_create_draft", NoArgs, 0)

\* Lines 266-286: build the message and drafts().create(...).execute()
DraftCreate(p) ==
    /\ p \in procs /\ pc[p] = "d_create"
    /\ \E r \in VendorOutcomes :
        /\ log' = [log EXCEPT ![p] = Append(@, VendorCall(r))]
        /\ CASE r = "ok" ->
                /\ loc' = [loc EXCEPT ![p].out =
                        <<[kind |-> "literal", text |-> "Draft message created!"]>>]
                /\ pc' = [pc EXCEPT ![p] = "d_finish"]
                /\ UNCHANGED exc
          [] r # "ok" /\ Caught(r) ->
                /\ loc' = [loc EXCEPT ![p].out =
                                <<ErrorText("An error occurred: ", "HttpError")>>]
                /\ pc' = [pc EXCEPT ![p] = "d_finish"]
                /\ UNCHANGED exc
          [] r # "ok" /\ ~Caught(r) ->
                /\ RaiseTo(p, r)
                /\ UNCHANGED loc
    /\ UNCHANGED <<procs, vendorCals, mailbox, args, tokenFile, now, nextTok,
                   op, retry, creds, result, hist>>

\* Lines 288-295: the status with done=True, then `return out`: the text
\* itself, not wrapped in MAIN_FORMAT
FinishDraft(p) ==
    /\ p \in procs /\ pc[p] = "d_finish"
    /\ result' = [result EXCEPT ![p] = <<[bare |-> loc[p].out]>>]
    /\ log' = [log EXCEPT ![p] = Append(@, "status_done")]
    /\ pc' = [pc EXCEPT ![p] = "returned"]
    /\ UNCHANGED <<procs, vendorCals, mailbox, args, loc, tokenFile, now, nextTok,
                   op, retry, creds, exc, hist>>

\* the state of every invocation before its first call
InitBase ==
    /\ now = 0
    /\ nextTok = 2
    /\ pc = [p \in Procs |-> "idle"]
    /\ op = [p \in Procs |-> "none"]
    /\ retry = [p \in Procs |-> FALSE]
    /\ creds = [p \in Procs |-> <<>>]
    /\ result = [p \in Procs |-> <<>>]
    /\ exc = [p \in Procs |-> ""]
    /\ hist = [p \in Procs |-> NoHist]
    /\ args = [p \in Procs |-> NoArgs]
    /\ loc = [p \in Procs |-> NoLoc]
    /\ log = [p \in Procs |-> <<>>]

Init ==
    /\ procs = {"p1"}
    /\ tokenFile \in InitFiles
    /\ vendorCals = <<>>
    /\ mailbox = <<>>
    /\ InitBase

Next ==
    \/ Tick
    \/ \E p \in Procs :
        \/ CallCreds(p)
        \/ LoadToken(p)
        \/ Refresh(p)
        \/ ConsentFlow(p)
        \/ Persist(p)
        \/ HandleRetry(p)
        \/ RemoveFails(p)
        \/ HandleNoRetry(p)
        \/ ReturnCreds(p)

Spec == Init /\ [][Next]_vars

(* ------------- two invocations of get_google_creds at once ------------- *)
\* an expired token, with and without refresh token
ExpiredTokenFiles == { <<ToJson(Cred(1, 0, r))>> : r \in BOOLEAN }

\* two host requests run get_google_creds against the one token.json
InitRace ==
    /\ procs = Procs
    /\ tokenFile \in ExpiredTokenFiles
    /\ vendorCals = <<>>
    /\ mailbox = <<>>
    /\ InitBase

NextRace ==
    \E p \in Procs :
        \/ CallCreds(p)
        \/ LoadToken(p)
        \/ Refresh(p)
        \/ ConsentFlow(p)
        \/ Persist(p)
        \/ HandleRetry(p)
        \/ RemoveFails(p)
        \/ HandleNoRetry(p)
        \/ ReturnCreds(p)

SpecRace == InitRace /\ [][NextRace]_vars

(* ------------------- the calendar aggregator alone --------------------- *)
\* vendor events in the format of lines 419-454: an all-day event and two
\* timed events of the same day; the organizer has a display name or only
\* an email
VendorEvents ==
    { [start |-> [date |-> <<1>>], summary |-> "a",
       organizer |-> [displayName |-> "Work", email |-> "w@x"]],
      [start |-> [dateTime |-> <<1, 1>>], summary |-> "b",
       organizer |-> [email |-> "me@x"]],
      [start |-> [dateTime |-> <<1, 2>>], summary |-> "c",
       organizer |-> [displayName |-> "Home", email |-> "h@x"]] }

\* the calendars the vendor can hold: up to MaxEvts events in start order
VendorCalendars ==
    { c \in UNION { [1..n -> VendorEvents] : n \in 0..MaxEvts } :
        \A i \in 1..Len(c), j \in 1..Len(c) :
            i < j => ~StrLess(CalEvt(c[j]).start, CalEvt(c[i]).start) }

\* a cached token that stays valid
ValidTokenFile == <<ToJson(Cred(1, MaxTime + 1, TRUE))>>

InitEvents ==
    /\ procs = {"p1"}
    /\ tokenFile = ValidTokenFile
    /\ vendorCals \in UNION { [1..n -> VendorCalendars] : n \in 0..MaxCals }
    /\ mailbox = <<>>
    /\ InitBase

NextEvents ==
    \E p \in Procs :
        \/ StartEvents(p)
        \/ TryCreds(p)
        \/ LoadToken(p)
        \/ ReturnCreds(p)
        \/ CalendarIds(p)
        \/ CalendarEvents(p)
        \/ SortAndTake(p)
        \/ Finish(p)

SpecEvents == InitEvents /\ [][NextEvents]_vars

(* ----------------------- the Gmail accessor alone ---------------------- *)
\* body.data values: a text, a text that needs escaping with a discarded
\* character and an undecodable byte, a str with incorrect padding, and a
\* value that is no str
DataPlain == [isStr |-> TRUE, chars |-> <<"YQ==">>]
DataMarkup == [isStr |-> TRUE, chars |-> <<"PA==", "-", "/w==">>]
DataBadPadding == [isStr |-> TRUE, chars |-> <<"YQ==", "Y">>]
DataNoStr == [isStr |-> FALSE, chars |-> <<>>]

\* a body without data, as the vendor sends for containers and attachments
BodyNoData == [size |-> 0]

\* the immediate child parts of the payloads of SpecBody
Parts ==
    { [mimeType |-> m, body |-> b] :
        m \in {"text/plain", "text/html", "image/png"},
        b \in {BodyNoData} \cup { [size |-> 1, data |-> d] :
                    d \in {DataPlain, DataMarkup, DataBadPadding} } }

PartLists == UNION { [1..n -> Parts] : n \in 0..MaxParts }

TopMimeTypes ==
    {"text/plain", "multipart/alternative", "multipart/mixed", "multipart/related"}

TopBodies ==
    {BodyNoData} \cup { [size |-> 1, data |-> d] : d \in {DataPlain, DataBadPadding} }

\* the payloads of SpecBody: with and without parts, with and without body
BodyPayloads ==
    { [mimeType |-> m, body |-> b, parts |-> ps] :
        m \in TopMimeTypes, b \in TopBodies, ps \in PartLists }
    \cup { [mimeType |-> m, body |-> b] : m \in TopMimeTypes, b \in TopBodies }
    \cup { [mimeType |-> m, parts |-> ps] : m \in TopMimeTypes, ps \in PartLists }

FullHeaders ==
    << [name |-> "Date", value |-> "date"], [name |-> "From", value |-> "from"],
       [name |-> "Subject", value |-> "subject"] >>

Message(labelIds, payload) ==
    [labelIds |-> labelIds,
     snippet |-> IF "UNREAD" \in labelIds THEN "new" ELSE "old",
     payload |-> payload @@ [headers |-> FullHeaders]]

\* one message, any payload; only get_email_content is called
InitBody ==
    /\ procs = {"p1"}
    /\ tokenFile = ValidTokenFile
    /\ vendorCals = <<>>
    /\ mailbox \in { <<Message({"INBOX"}, payload)>> : payload \in BodyPayloads }
    /\ InitBase

NextBody ==
    \E p \in Procs :
        \/ StartContent(p)
        \/ TryCreds(p)
        \/ LoadToken(p)
        \/ ReturnCreds(p)
        \/ ContentGet(p)
        \/ Finish(p)

SpecBody == InitBody /\ [][NextBody]_vars

PlainPayload == [mimeType |-> "text/plain", body |-> [size |-> 1, data |-> DataMarkup]]

\* the payloads of the listings: a plain text, a multipart/alternative with
\* [text/plain, text/html], and one payload per way of failing: no mimeType,
\* a multipart without parts, a part without mimeType, no data, incorrect
\* padding, a data that is no str
ListingPayloads ==
    { PlainPayload,
      [mimeType |-> "multipart/alternative", body |-> BodyNoData,
       parts |-> << [mimeType |-> "text/plain", body |-> [size |-> 1, data |-> DataPlain]],
                    [mimeType |-> "text/html", body |-> [size |-> 1, data |-> DataMarkup]] >>],
      [body |-> [size |-> 1, data |-> DataPlain]],
      [mimeType |-> "multipart/mixed", body |-> BodyNoData],
      [mimeType |-> "multipart/mixed", body |-> [size |-> 1, data |-> DataPlain],
       parts |-> << [body |-> [size |-> 1, data |-> DataPlain]] >>],
      [mimeType |-> "text/html", body |-> BodyNoData],
      [mimeType |-> "text/plain", body |-> [size |-> 1, data |-> DataBadPadding]],
      [mimeType |-> "text/plain", body |-> [size |-> 1, data |-> DataNoStr]] }

\* read messages with each payload, and an unread one
ListingMessages ==
    { Message({"INBOX"}, payload) : payload \in ListingPayloads }
    \cup { Message({"INBOX", "UNREAD"}, PlainPayload) }

InitMail ==
    /\ procs = {"p1"}
    /\ tokenFile = ValidTokenFile
    /\ vendorCals = <<>>
    /\ mailbox \in UNION { [1..n -> ListingMessages] : n \in 0..MaxMsgs }
    /\ InitBase

NextMail ==
    \E p \in Procs :
        \/ StartEmails(p)
        \/ StartContent(p)
        \/ TryCreds(p)
        \/ LoadToken(p)
        \/ ReturnCreds(p)
        \/ MessagesList(p)
        \/ MessageGet(p)
        \/ ContentGet(p)
        \/ Finish(p)

SpecMail == InitMail /\ [][NextMail]_vars

(* ------------------------ listings and headers ------------------------- *)
\* header entries: one Date, one From, two Subject and one whose name
\* differs from Subject in case only
HeaderEntries ==
    { [name |-> "Date", value |-> "d1"], [name |-> "From", value |-> "f1"],
      [name |-> "Subject", value |-> "s1"], [name |-> "Subject", value |-> "s2"],
      [name |-> "subject", value |-> "s3"] }

HeaderLists == UNION { [1..n -> HeaderEntries] : n \in 0..MaxHdrs }

HeaderMessage(headers) ==
    [labelIds |-> {"INBOX"}, snippet |-> "old",
     payload |-> PlainPayload @@ [headers |-> headers]]

\* a message with any header list, alone or behind a message with all three
\* headers; the listings of both versions of get_user_emails are called
InitHeaders ==
    /\ procs = {"p1"}
    /\ tokenFile = ValidTokenFile
    /\ vendorCals = <<>>
    /\ mailbox \in { <<HeaderMessage(h)>> : h \in HeaderLists }
                    \cup { <<Message({"INBOX"}, PlainPayload), HeaderMessage(h)>> :
                                h \in HeaderLists }
    /\ InitBase

NextHeaders ==
    \E p \in Procs :
        \/ StartEmails(p)
        \/ TryCreds(p)
        \/ LoadToken(p)
        \/ ReturnCreds(p)
        \/ MessagesList(p)
        \/ MessageGet(p)
        \/ Finish(p)
        \/ StartEmails1(p)
        \/ MessagesList1(p)
        \/ MessageGet1(p)

SpecHeaders == InitHeaders /\ [][NextHeaders]_vars

(* ---------- the four public operations with the credential manager ----- *)
\* any token file; one message in the mailbox, one calendar with one event
InitOps ==
    /\ procs = {"p1"}
    /\ tokenFile \in InitFiles
    /\ vendorCals = << << [start |-> [date |-> <<1>>], summary |-> "a",
                          organizer |-> [email |-> "me@x"]] >> >>
    /\ mailbox = << Message({"INBOX"}, PlainPayload) >>
    /\ InitBase

NextOps ==
    \/ Tick
    \/ \E p \in Procs :
        \/ StartEmails(p)
        \/ StartContent(p)
        \/ StartDraft(p)
        \/ StartEvents(p)
        \/ TryCreds(p)
        \/ LoadToken(p)
        \/ Refresh(p)
        \/ ConsentFlow(p)
        \/ Persist(p)
        \/ HandleRetry(p)
        \/ RemoveFails(p)
        \/ HandleNoRetry(p)
        \/ ReturnCreds(p)
        \/ MessagesList(p)
        \/ MessageGet(p)
        \/ ContentGet(p)
        \/ DraftCreate(p)
        \/ FinishDraft(p)
        \/ CalendarIds(p)
        \/ CalendarEvents(p)
        \/ SortAndTake(p)
        \/ Finish(p)

SpecOps == InitOps /\ [][NextOps]_vars

(* ------------------- claims about get_google_creds --------------------- *)
\* a direct call of get_google_creds by p has ended
CredsEnded(p) == op[p] = "get_google_creds" /\ pc[p] \in {"returned", "raised"}

\* C1: when the first acquisition sequence of get_google_creds(retry=true)
\* raises, the token file is deleted exactly once and the sequence is re-run
\* exactly once; and no call makes more than two attempts or more than one
\* deletion.
C1_RetryOnceAfterFailure ==
    \A p \in Procs :
        /\ hist[p].attempts <= 2 /\ hist[p].deletes <= 1
        /\ (CredsEnded(p) /\ hist[p].retry0 /\ hist[p].failed1)
              => (hist[p].deletes = 1 /\ hist[p].attempts = 2)

\* C2: when a step of the acquisition sequence raises in a frame with
\* retry=false, the call ends in an error and returns no credential value.
C2_NoRetryFailurePropagates ==
    \A p \in Procs :
        (CredsEnded(p) /\ hist[p].failedNoRetry) => pc[p] = "raised"

\* C3: when the token file holds a valid credential, get_google_creds returns
\* that credential, calls neither the refresh nor the consent flow, and neither
\* writes nor deletes the token file, which is left unchanged.
C3_ValidCacheReturnedUntouched ==
    \A p \in Procs :
        (op[p] = "get_google_creds" /\ hist[p].hitCache) =>
            /\ hist[p].refreshes = 0 /\ hist[p].flows = 0
            /\ hist[p].writes = 0 /\ hist[p].deletes = 0
            /\ tokenFile = hist[p].file0
            /\ pc[p] \in {"c_return", "returned"}
            /\ pc[p] = "returned" => result[p] = <<FromFile(hist[p].file0[1])>>

\* C3 witness: a later call returns from the cache the token that an earlier
\* call of the same behaviour acquired and wrote.
C3_Witness ==
    \E p \in Procs :
        /\ CredsEnded(p) /\ pc[p] = "returned" /\ hist[p].hitCache
        /\ result[p] # <<>> /\ result[p][1].token >= 2

\* C4: whenever get_google_creds returns a credential obtained by a refresh
\* or by the consent flow, the token file exists and holds that credential.
C4_FreshCredentialIsPersisted ==
    \A p \in Procs :
        (CredsEnded(p) /\ pc[p] = "returned" /\ hist[p].fresh) =>
            /\ result[p] # <<>>
            /\ tokenFile = <<ToJson(result[p][1])>>

(* -------------------- claims about get_user_events --------------------- *)
\* an invocation of get_user_events by p has ended
EventsEnded(p) == op[p] = "get_user_events" /\ pc[p] \in {"returned", "raised"}

\* every vendor call the invocation made was answered
AllVendorOk(p) ==
    \A i \in 1..Len(log[p]) : log[p][i] \notin {"vendor_HttpError", "vendor_OtherError"}

\* the places (calendar, index) of the events the vendor hands out when each
\* calendar is asked for at most n events
Fetched(n) ==
    { <<k, j>> \in (1..Len(vendorCals)) \X (1..MaxEvts) :
        j <= Len(vendorCals[k]) /\ j <= n }

\* how often x occurs in the sequence s
Occurrences(s, x) == Cardinality({ i \in 1..Len(s) : s[i] = x })

\* the event record the listing shows for the vendor event e: its dateTime,
\* or its date when it has none, and the organizer's display name, or the
\* email when there is none
Shown(e) ==
    [kind |-> "event",
     start |-> IF "dateTime" \in DOMAIN e.start THEN e.start.dateTime ELSE e.start.date,
     summary |-> e.summary,
     calendar |-> IF "displayName" \in DOMAIN e.organizer
                  THEN e.organizer.displayName ELSE e.organizer.email]

C6_FirstCountOfSortedMerge ==
    \A p \in Procs :
        (EventsEnded(p) /\ AllVendorOk(p)
            /\ loc[p].count <= Cardinality(Fetched(loc[p].count)))
        => /\ pc[p] = "returned"
           /\ LET out == result[p][1].output.text
                  n == loc[p].count
                  all == { Shown(vendorCals[f[1]][f[2]]) : f \in Fetched(n) }
                  fetchedTimes(x) ==
                      Cardinality({ f \in Fetched(n) : Shown(vendorCals[f[1]][f[2]]) = x })
              IN  /\ Len(out) = n
                  /\ \A i \in 1..n, j \in 1..n :
                        i < j => ~StrLess(out[j].start, out[i].start)
                  /\ \A i \in 1..n :
                        out[i] \in all /\ Occurrences(out, out[i]) <= fetchedTimes(out[i])
                  /\ \A x \in all :
                        Occurrences(out, x) < fetchedTimes(x)
                            => \A i \in 1..n : ~StrLess(x.start, out[i].start)

\* C6 witness: three events are returned; the first two are the same event
\* held by two calendars, the third has another calendar label and was
\* fetched from the calendar listed first.
C6_Witness ==
    \E p \in Procs :
        /\ EventsEnded(p) /\ pc[p] = "returned" /\ AllVendorOk(p)
        /\ loc[p].count = 3 /\ Len(vendorCals) = 2
        /\ LET out == result[p][1].output.text
           IN  /\ Len(out) = 3
               /\ out[1] = out[2]
               /\ out[3].calendar # out[1].calendar
               /\ StrLess(out[2].start, out[3].start)
               /\ Len(vendorCals[1]) = 2 /\ Shown(vendorCals[1][2]) = out[3]

(* ------------------ claims about parse_email_body ---------------------- *)
\* an invocation of get_email_content by p has returned the body of the
\* message it asked for
ContentReturned(p) ==
    /\ op[p] = "get_email_content" /\ pc[p] = "returned" /\ AllVendorOk(p)

\* the body text an invocation of get_email_content returned
ReturnedBody(p) == result[p][1].output.text[1]

TextPart(part) == part.mimeType \in {"text/html", "text/plain"}

\* the payload's immediate child part of least index that is text/html or
\* text/plain, when the payload is multipart/alternative or multipart/mixed
\* and has one; otherwise the payload itself
BodyHolder(payload) ==
    IF /\ payload.mimeType \in {"multipart/alternative", "multipart/mixed"}
       /\ \E i \in 1..Len(payload.parts) : TextPart(payload.parts[i])
    THEN LET i == CHOOSE i \in 1..Len(payload.parts) :
                    /\ TextPart(payload.parts[i])
                    /\ \A j \in 1..(i - 1) : ~TextPart(payload.parts[j])
         IN  payload.parts[i]
    ELSE payload

\* the payload names its type and, being multipart, its parts
HasStructure(payload) ==
    /\ "mimeType" \in DOMAIN payload
    /\ payload.mimeType \in {"multipart/alternative", "multipart/mixed"}
          => /\ "parts" \in DOMAIN payload
             /\ \A i \in 1..Len(payload.parts) : "mimeType" \in DOMAIN payload.parts[i]

\* the holder's body has data that base64 decodes
Decodable(x) ==
    /\ "body" \in DOMAIN x /\ "data" \in DOMAIN x.body
    /\ x.body.data.isStr
    /\ \A i \in 1..Len(x.body.data.chars) : x.body.data.chars[i] # "Y"

\* C9: on a multipart/alternative or multipart/mixed payload parse_email_body
\* returns the decoded, escaped content of the first immediate child part
\* that is text/html or text/plain; on any other payload, or when no child
\* matches, that of the top-level body.
C9_FirstTextPartElseTopBody ==
    \A p \in Procs :
        (ContentReturned(p) /\ HasStructure(mailbox[args[p].message_id].payload))
        => LET payload == mailbox[args[p].message_id].payload
               holder == BodyHolder(payload)
           IN  /\ Decodable(holder) =>
                    /\ ReturnedBody(p).kind = "text"
                    /\ ReturnedBody(p).chars = decode_mail_body(holder.body.data).chars
               /\ ~Decodable(holder) => ReturnedBody(p).kind = "error"

\* C9 witness: a multipart/alternative payload with the parts [text/plain,
\* text/html], both decodable to different texts; the plain text is returned.
C9_Witness ==
    \E p \in Procs :
        /\ ContentReturned(p)
        /\ LET payload == mailbox[args[p].message_id].payload
           IN  /\ payload.mimeType = "multipart/alternative"
               /\ "parts" \in DOMAIN payload /\ Len(payload.parts) = 2
               /\ payload.parts[1].mimeType = "text/plain"
               /\ payload.parts[2].mimeType = "text/html"
               /\ Decodable(payload.parts[1]) /\ Decodable(payload.parts[2])
               /\ payload.parts[1].body.data = DataPlain
               /\ payload.parts[2].body.data = DataMarkup
               /\ ReturnedBody(p).chars = <<"a">>

\* a payload on which body extraction fails: no mimeType, a multipart with
\* no parts or with a part without mimeType before the first text part, or
\* a body to decode that has no data or data that does not decode
RECURSIVE UntypedBeforeText(_)
UntypedBeforeText(parts) ==
    /\ parts # <<>>
    /\ \/ "mimeType" \notin DOMAIN Head(parts)
       \/ ~TextPart(Head(parts)) /\ UntypedBeforeText(Tail(parts))

FailingPayload(payload) ==
    \/ "mimeType" \notin DOMAIN payload
    \/ /\ payload.mimeType \in {"multipart/alternative", "multipart/mixed"}
       /\ "parts" \notin DOMAIN payload \/ UntypedBeforeText(payload.parts)
    \/ HasStructure(payload) /\ ~Decodable(BodyHolder(payload))

\* C10: parse_email_body never raises and returns an error text exactly on
\* the failing payloads; in a get_user_emails listing every message that was
\* listed has its record, and a record's fields other than email_body are
\* those of its message whether or not its body, or that of another message,
\* failed to decode.
C10_BodyFailureIsContained ==
    \A p \in Procs :
        /\ (op[p] \in {"get_email_content", "get_user_emails"}
                /\ pc[p] = "raised") => ~AllVendorOk(p)
        /\ ContentReturned(p) =>
              /\ ReturnedBody(p).kind \in {"text", "error"}
              /\ ReturnedBody(p).kind = "error"
                    <=> FailingPayload(mailbox[args[p].message_id].payload)
        /\ (op[p] = "get_user_emails" /\ pc[p] = "returned" /\ AllVendorOk(p)) =>
              LET out == result[p][1].output.text
                  ids == ListMessages(args[p].label_id, loc[p].count)
              IN  ids # <<>> =>
                    /\ Len(out) = Len(ids)
                    /\ \A k \in 1..Len(ids) :
                          LET mail == mailbox[ids[k]] IN
                          /\ out[k].kind = "email"
                          /\ out[k].id = ids[k]
                          /\ out[k].snippet = mail.snippet
                          /\ out[k].unread = ("UNREAD" \in mail.labelIds)
                          /\ out[k].date = "date" /\ out[k].sender = "from"
                          /\ out[k].subject = "subject"
                          /\ out[k].email_body.kind \in {"text", "error"}
                          /\ out[k].email_body.kind = "error"
                                <=> FailingPayload(mail.payload)

\* C10 witness: a listing of two messages; the body of the first failed to
\* decode, the second, an unread message, has its text.
C10_Witness ==
    \E p \in Procs :
        /\ op[p] = "get_user_emails" /\ pc[p] = "returned" /\ AllVendorOk(p)
        /\ LET out == result[p][1].output.text
           IN  /\ Len(out) = 2
               /\ out[1].kind = "email" /\ out[1].email_body.kind = "error"
               /\ out[1].email_body.error = "ValueError"
               /\ out[2].email_body.kind = "text" /\ out[2].unread
               /\ out[2].email_body.chars = <<"&lt;", "U+FFFD">>

(* ---------------- claims about the public operations ------------------- *)
PublicOps ==
    {"get_user_emails", "get_email_content", "gmail_create_draft", "get_user_events"}

Ended(p) == pc[p] \in {"returned", "raised"}

\* the notifications of an invocation so far are in order: the status with
\* done=false comes first, before any credential access or vendor call, and
\* once only; a status with done=true has nothing after it
StatusInOrder(p) ==
    /\ log[p] # <<>> /\ log[p][1] = "status_start"
    /\ \A i \in 2..Len(log[p]) : log[p][i] # "status_start"
    /\ \A i \in 1..Len(log[p]) : log[p][i] = "status_done" => i = Len(log[p])

\* C7 as claimed: every invocation of a public operation sends one status
\* with done=false first and one with done=true last, however it ends.
C7_StartAndDoneAlways ==
    \A p \in Procs :
        op[p] \in PublicOps =>
            /\ StatusInOrder(p)
            /\ Ended(p) => log[p][Len(log[p])] = "status_done"

\* C7 as amended: the status with done=false is sent once and first; the
\* status with done=true is sent once, after the last vendor call, by the
\* invocations that return, and not at all by those that an exception ends.
C7_DoneIffReturned ==
    \A p \in Procs :
        op[p] \in PublicOps =>
            /\ StatusInOrder(p)
            /\ log[p][Len(log[p])] = "status_done" <=> pc[p] = "returned"

\* C7 witness: get_user_events ended by the IndexError after its status with
\* done=false, its credential access and two answered vendor calls.
C7_Witness ==
    \E p \in Procs :
        /\ op[p] = "get_user_events" /\ pc[p] = "raised" /\ exc[p] = "IndexError"
        /\ log[p] = <<"status_start", "creds", "vendor_ok", "vendor_ok">>

HttpFailed(p) == \E i \in 1..Len(log[p]) : log[p][i] = "vendor_HttpError"
OtherFailed(p) == \E i \in 1..Len(log[p]) : log[p][i] = "vendor_OtherError"

\* the text holds exactly a rendered HttpError
IsHttpErrorText(text) ==
    /\ Len(text) = 1 /\ text[1].kind = "error" /\ text[1].error = "HttpError"

ListingReturned(p) ==
    op[p] = "get_user_emails" /\ pc[p] = "returned" /\ AllVendorOk(p)

ListingOf(p) == result[p][1].output.text

\* the value of the entry of least index named exactly name, "" without one
FirstNamed(headers, name) ==
    LET idx == { i \in 1..Len(headers) : headers[i].name = name }
    IN  IF idx = {} THEN ""
        ELSE headers[CHOOSE i \in idx : \A j \in idx : i <= j].value

\* C11: in a get_user_emails listing, of either version of the operation, the
\* fields date, sender and subject of a record are the values of the first
\* header entry named exactly Date, From and Subject of its message, and the
\* empty string when the message has no entry of that name; a message
\* without such a header does not make the operation fail.
C11_MissingHeaderIsEmpty ==
    \A p \in Procs :
        /\ (op[p] \in {"get_user_emails", "get_user_emails@0.0.1"}
                /\ pc[p] = "raised") => ~AllVendorOk(p)
        /\ ListingReturned(p) =>
              \A k \in 1..Len(ListingOf(p)) :
                  LET rec == ListingOf(p)[k] IN
                  rec.kind = "email" =>
                      LET headers == mailbox[rec.id].payload.headers
                      IN  /\ rec.date = FirstNamed(headers, "Date")
                          /\ rec.sender = FirstNamed(headers, "From")
                          /\ rec.subject = FirstNamed(headers, "Subject")
        /\ (op[p] = "get_user_emails@0.0.1" /\ pc[p] = "returned") =>
              LET out == result[p][1].bare IN
              \A k \in 2..Len(out) :
                  LET headers == mailbox[k - 1].payload.headers
                  IN  /\ out[k].date = FirstNamed(headers, "Date")
                      /\ out[k].sender = FirstNamed(headers, "From")
                      /\ out[k].subject = FirstNamed(headers, "Subject")

\* The part of C11 that is about the get_user_emails with get_header_value
\* (version 0.0.3): it holds there.
HeaderValueInLaterVersion ==
    \A p \in Procs :
        /\ (op[p] = "get_user_emails" /\ pc[p] = "raised") => ~AllVendorOk(p)
        /\ ListingReturned(p) =>
              \A k \in 1..Len(ListingOf(p)) :
                  LET rec == ListingOf(p)[k] IN
                  rec.kind = "email" =>
                      LET headers == mailbox[rec.id].payload.headers
                      IN  /\ rec.date = FirstNamed(headers, "Date")
                          /\ rec.sender = FirstNamed(headers, "From")
                          /\ rec.subject = FirstNamed(headers, "Subject")

\* a returned record of a message whose only headers are a subject in lower
\* case and a Date: the subject and sender fields are empty.
MissingHeaderListed ==
    \E p \in Procs :
        /\ ListingReturned(p) /\ Len(ListingOf(p)) = 2
        /\ LET rec == ListingOf(p)[2]
           IN  /\ rec.kind = "email"
               /\ mailbox[rec.id].payload.headers =
                      << [name |-> "subject", value |-> "s3"],
                         [name |-> "Date", value |-> "d1"] >>
               /\ rec.subject = "" /\ rec.sender = "" /\ rec.date = "d1"

\* C12: a listing that get_user_emails returns for the label UNREAD holds
\* only records of messages whose label set contains UNREAD, each with its
\* unread field true; in every listing the unread field of a record says
\* whether the label set of its message contains UNREAD.
C12_UnreadListingIsUnread ==
    \A p \in Procs :
        (op[p] = "get_user_emails" /\ pc[p] = "returned") =>
            \A k \in 1..Len(ListingOf(p)) :
                LET rec == ListingOf(p)[k] IN
                rec.kind = "email" =>
                    /\ rec.unread <=> "UNREAD" \in mailbox[rec.id].labelIds
                    /\ args[p].label_id = "UNREAD" => rec.unread

\* C12 witness: the mailbox holds a read message and then an unread one, and
\* the returned listing for UNREAD is the record of the second alone.
C12_Witness ==
    \E p \in Procs :
        /\ ListingReturned(p) /\ args[p].label_id = "UNREAD"
        /\ Len(mailbox) = 2 /\ "UNREAD" \notin mailbox[1].labelIds
        /\ Len(ListingOf(p)) = 1
        /\ ListingOf(p)[1].kind = "email" /\ ListingOf(p)[1].id = 2
        /\ ListingOf(p)[1].unread

(* ---------------- claims about the per-calendar cap ------------------- *)
\* the event records of all events of the calendars cals, calendar by
\* calendar, and those of the at most n first events of each calendar
RECURSIVE AllEvents(_)
AllEvents(cals) ==
    IF cals = <<>> THEN <<>>
    ELSE get_cal_evts(Head(cals), Len(Head(cals))) \o AllEvents(Tail(cals))

RECURSIVE CappedEvents(_, _)
CappedEvents(cals, n) ==
    IF cals = <<>> THEN <<>>
    ELSE get_cal_evts(Head(cals), n) \o CappedEvents(Tail(cals), n)

\* the first n of the events l by start, as the listing shows them
FirstByStart(l, n) ==
    LET sorted == SortByStart(l) IN [i \in 1..n |-> CALENDAR_FORMAT(sorted[i])]

\* the lists of calendars the vendor can hold, those included that hold two
\* different events of one start
TiedEvent ==
    [start |-> [dateTime |-> <<1, 1>>], summary |-> "d",
     organizer |-> [displayName |-> "Work", email |-> "w@x"]]

CalendarLists ==
    LET events == VendorEvents \cup {TiedEvent}
        calendars ==
            { c \in UNION { [1..n -> events] : n \in 0..MaxEvts } :
                \A i \in 1..Len(c), j \in 1..Len(c) :
                    i < j => ~StrLess(CalEvt(c[j]).start, CalEvt(c[i]).start) }
    IN  UNION { [1..n -> calendars] : n \in 0..MaxCals }

AcquiredFor(p, f) ==
    /\ p \in procs /\ op[p] = "get_google_creds" /\ pc[p] = "returned"
    /\ hist[p].file0 = f /\ f \in ExpiredTokenFiles
    /\ hist[p].attempts = 1 /\ ~hist[p].failedNoRetry

\* C14: nothing keeps two invocations of get_google_creds apart: whenever
\* both have read the same expired token and returned without failure, each
\* of them has made its own refresh or consent flow and its own write of the
\* token file, and the two hold different credentials: the credential was
\* acquired twice for one expiry.
C14_ExpiredTokenAcquiredTwice ==
    \A p, q \in Procs :
        (p # q /\ AcquiredFor(p, hist[p].file0) /\ AcquiredFor(q, hist[p].file0)) =>
            /\ hist[p].refreshes + hist[p].flows = 1 /\ hist[p].writes = 1
            /\ hist[q].refreshes + hist[q].flows = 1 /\ hist[q].writes = 1
            /\ result[p] # <<>> /\ result[q] # <<>>
            /\ result[p][1].token # result[q][1].token

\* C14 witness: both invocations read the expired token 1, both refreshed and
\* both wrote token.json, which holds what the second writer stored.
C14_Witness ==
    /\ AcquiredFor("p1", <<ToJson(Cred(1, 0, TRUE))>>)
    /\ AcquiredFor("p2", <<ToJson(Cred(1, 0, TRUE))>>)
    /\ hist["p1"].refreshes = 1 /\ hist["p2"].refreshes = 1
    /\ hist["p1"].writes = 1 /\ hist["p2"].writes = 1
    /\ result["p1"][1].token = 2 /\ result["p2"][1].token = 3
    /\ tokenFile = <<ToJson(result["p1"][1])>>

(* ------------- claims about the deletion of the token file ------------- *)
\* C15: when the first acquisition sequence of get_google_creds(retry=true)
\* raises and the handler finds no token file to delete (the call has a
\* failed first attempt and no deletion), the call ends with the
\* FileNotFoundError of the deletion, returns nothing, and has made no second
\* attempt; and the deletion error ends no other call.
C15_MissingFileEndsTheCall ==
    \A p \in Procs :
        /\ (CredsEnded(p) /\ hist[p].retry0 /\ hist[p].failed1 /\ hist[p].deletes = 0)
              => /\ pc[p] = "raised" /\ exc[p] = "FileNotFoundError"
                 /\ result[p] = <<>>
                 /\ hist[p].attempts = 1
                 /\ tokenFile = <<>>
        /\ (CredsEnded(p) /\ pc[p] = "raised")
              => /\ exc[p] = "FileNotFoundError"
                 /\ hist[p].retry0 /\ hist[p].failed1 /\ hist[p].deletes = 0

\* C15 witness: a first run without token file whose consent flow failed:
\* the call ended with FileNotFoundError after one attempt.
C15_Witness ==
    \E p \in Procs :
        /\ CredsEnded(p) /\ pc[p] = "raised" /\ exc[p] = "FileNotFoundError"
        /\ hist[p].retry0 /\ hist[p].file0 = <<>> /\ hist[p].flows = 1
        /\ hist[p].attempts = 1 /\ hist[p].writes = 0
        /\ tokenFile = <<>>

(* --------------- claims about a failed message fetch ------------------- *)
\* the place in the log of p of the first vendor call that failed, 0 when
\* none did; in get_user_emails place 3 is messages().list and place 3 + k
\* the fetch of the k-th listed message
FirstFailure(p) ==
    LET failed == { i \in 1..Len(log[p]) :
                      log[p][i] \in {"vendor_HttpError", "vendor_OtherError"} }
    IN  IF failed = {} THEN 0 ELSE CHOOSE i \in failed : \A j \in failed : i <= j

\* C16: when in get_user_emails the fetch of the k-th listed message fails
\* after k-1 messages were fetched and formatted, no further message is
\* fetched; a listing that is returned (the failure was an HttpError) holds
\* the error text alone and none of the k-1 records, and after a failure of
\* another type nothing is returned, so that no partial result leaves the
\* operation.
C16_FailedFetchDropsRecords ==
    \A p \in Procs :
        (op[p] = "get_user_emails" /\ Ended(p) /\ FirstFailure(p) > 3) =>
            LET i == FirstFailure(p) IN
            /\ \A j \in 4..(i - 1) : log[p][j] = "vendor_ok"
            /\ \A j \in (i + 1)..Len(log[p]) : log[p][j] = "status_done"
            /\ IF log[p][i] = "vendor_HttpError"
               THEN /\ pc[p] = "returned"
                    /\ ListingOf(p) = <<ErrorText("An error occurred: ", "HttpError")>>
               ELSE pc[p] = "raised" /\ result[p] = <<>>

\* C16 witness: two messages were listed, the first was fetched and the fetch
\* of the second failed with an HttpError; the returned listing is the error
\* text alone.
C16_Witness ==
    \E p \in Procs :
        /\ op[p] = "get_user_emails" /\ pc[p] = "returned"
        /\ Len(mailbox) = 2 /\ loc[p].count >= 2
        /\ log[p] = <<"status_start", "creds", "vendor_ok", "vendor_ok",
                      "vendor_HttpError", "status_done">>
        /\ Len(ListingOf(p)) = 1 /\ ListingOf(p)[1].kind = "error"
        /\ Len(loc[p].messages) = 1

====
